---- MODULE Spec2Model ----
(***************************************************************************)
(* Model of package_boards.py: the release scan (get_released_boards), the *)
(* index rendering and publishing pipeline (main, create_release,          *)
(* upload_assets) and the pure helpers (version_ordering, the filename     *)
(* splitting).  Strings are sequences of one-character strings so that     *)
(* str.split is computed, not assumed.                                     *)
(***************************************************************************)
EXTENDS Integers, Sequences, FiniteSets, TLC

\* ------------------------------------------------------------------ bounds
MaxReleases == 2      \* releases held by the source repository
MaxPerPage == 3       \* largest per_page argument tried
MaxPages == 2         \* page_number is not advanced past this value
MaxVerLen == 3        \* components of a version tuple (comparator domain)
MaxComp == 3          \* largest component of a version tuple
MaxFieldLen == 2      \* characters of a generated filename field

\* ------------------------------------------------------------- str helpers
Digits == {"0", "1", "2", "3", "4", "5", "6", "7", "8", "9"}

DigitVal(c) ==
    CASE c = "0" -> 0 [] c = "1" -> 1 [] c = "2" -> 2 [] c = "3" -> 3
      [] c = "4" -> 4 [] c = "5" -> 5 [] c = "6" -> 6 [] c = "7" -> 7
      [] c = "8" -> 8 [] OTHER -> 9

\* index of the first occurrence of sep in s, 0 when there is none
FirstIdx(s, sep) ==
    IF \E i \in 1..Len(s) : s[i] = sep
    THEN CHOOSE i \in 1..Len(s) : s[i] = sep /\ \A j \in 1..(i - 1) : s[j] # sep
    ELSE 0

LastIdx(s, sep) ==
    IF \E i \in 1..Len(s) : s[i] = sep
    THEN CHOOSE i \in 1..Len(s) : s[i] = sep /\ \A j \in (i + 1)..Len(s) : s[j] # sep
    ELSE 0

\* s.rsplit(sep, 1): the cut is made at the last separator
rsplit1(s, sep) ==
    LET i == LastIdx(s, sep)
    IN  IF i = 0 THEN <<s>> ELSE <<SubSeq(s, 1, i - 1), SubSeq(s, i + 1, Len(s))>>

\* s.split(sep, 1): a list of one element (no separator) or of two
split1(s, sep) ==
    LET i == FirstIdx(s, sep)
    IN  IF i = 0 THEN <<s>> ELSE <<SubSeq(s, 1, i - 1), SubSeq(s, i + 1, Len(s))>>

\* s.split(sep): every separator cuts, empty pieces are kept
RECURSIVE split(_, _)
split(s, sep) ==
    LET i == FirstIdx(s, sep)
    IN  IF i = 0 THEN <<s>>
        ELSE <<SubSeq(s, 1, i - 1)>> \o split(SubSeq(s, i + 1, Len(s)), sep)

\* int(piece) succeeds on a non-empty run of decimal digits (the model's
\* alphabet holds no sign, blank or digit-group character)
IsInt(piece) == Len(piece) > 0 /\ \A i \in 1..Len(piece) : piece[i] \in Digits

RECURSIVE int(_)
int(piece) ==
    IF Len(piece) = 0 THEN 0
    ELSE 10 * int(SubSeq(piece, 1, Len(piece) - 1)) + DigitVal(piece[Len(piece)])

\* list(map(int, version.split('.'))): ok is FALSE where int() raises
parse_version(version) ==
    LET pieces == split(version, ".")
    IN  [ok |-> \A i \in 1..Len(pieces) : IsInt(pieces[i]),
         val |-> [i \in 1..Len(pieces) |-> int(pieces[i])]]

\* ------------------------------------------------------- version_ordering
Min(x, y) == IF x < y THEN x ELSE y

RECURSIVE version_ordering_from(_, _, _)
version_ordering_from(a, b, i) ==
    IF i > Min(Len(a), Len(b)) THEN 0
    ELSE IF a[i] < b[i] THEN -1
    ELSE IF a[i] > b[i] THEN 1
    ELSE version_ordering_from(a, b, i + 1)

\* a comparator that breaks prefix ties by length
version_ordering_by_length(a, b) ==
    LET r == version_ordering_from(a, b, 1)
    IN  IF r # 0 THEN r
        ELSE IF Len(a) < Len(b) THEN -1 ELSE IF Len(a) > Len(b) THEN 1 ELSE 0

version_ordering(a, b) == version_ordering_from(a, b, 1)

\* -------------------------------------------- filename splitting (56-58)
\* ok is FALSE where the tuple unpacking of a one-element split raises
parse_asset_name_last(name) ==
    LET s1 == split1(name, "_")
        s2 == IF Len(s1) = 2 THEN rsplit1(s1[2], "_") ELSE <<>>
        s3 == IF Len(s2) = 2 THEN split1(s2[2], ".") ELSE <<>>
    IN  IF Len(s1) = 2 /\ Len(s2) = 2 /\ Len(s3) = 2
        THEN [ok |-> TRUE, version |-> s1[1], hash |-> s2[1],
              platform |-> s3[1], extension |-> s3[2]]
        ELSE [ok |-> FALSE, version |-> <<>>, hash |-> <<>>,
              platform |-> <<>>, extension |-> <<>>]

parse_asset_name(name) ==
    LET s1 == split1(name, "_")
        s2 == IF Len(s1) = 2 THEN split1(s1[2], "_") ELSE <<>>
        s3 == IF Len(s2) = 2 THEN split1(s2[2], ".") ELSE <<>>
    IN  IF Len(s1) = 2 /\ Len(s2) = 2 /\ Len(s3) = 2
        THEN [ok |-> TRUE, version |-> s1[1], hash |-> s2[1],
              platform |-> s3[1], extension |-> s3[2]]
        ELSE [ok |-> FALSE, version |-> <<>>, hash |-> <<>>,
              platform |-> <<>>, extension |-> <<>>]

\* the publisher's re-derivation of the checksum (118-119)
rederive_checksum(filename) ==
    LET s1 == split1(filename, "_")
        s2 == IF Len(s1) = 2 THEN split1(s1[2], "_") ELSE <<>>
    IN  IF Len(s1) = 2 /\ Len(s2) = 2
        THEN [ok |-> TRUE, checksum |-> s2[1]]
        ELSE [ok |-> FALSE, checksum |-> <<>>]

\* ------------------------------------------- dict (insertion ordered)
\* a Python dict is a sequence of [k, v] pairs with distinct keys, in
\* insertion order; assignment to a present key keeps its position
Has(d, k) == \E i \in 1..Len(d) : d[i].k = k

Get(d, k) == d[CHOOSE i \in 1..Len(d) : d[i].k = k].v

Put(d, k, v) ==
    IF Has(d, k)
    THEN [i \in 1..Len(d) |-> IF d[i].k = k THEN [k |-> k, v |-> v] ELSE d[i]]
    ELSE Append(d, [k |-> k, v |-> v])

\* defaultdict(dict).__getitem__: a missing key reads as an empty dict
GetDefault(d, k) == IF Has(d, k) THEN Get(d, k) ELSE <<>>

\* d[k1][k2] = v on a defaultdict(dict)
SetNested(d, k1, k2, v) == Put(d, k1, Put(GetDefault(d, k1), k2, v))

\* the (k1, k2) pairs of a nested dict, in iteration order
RECURSIVE NestedKeysFrom(_, _)
NestedKeysFrom(d, i) ==
    IF i > Len(d) THEN <<>>
    ELSE [j \in 1..Len(d[i].v) |-> <<d[i].k, d[i].v[j].k>>] \o NestedKeysFrom(d, i + 1)

NestedKeys(d) == NestedKeysFrom(d, 1)

NestedKeySet(d) == {NestedKeys(d)[i] : i \in 1..Len(NestedKeys(d))}

\* ------------------------------------------------------------ input data
ManifestName == <<"m", "a", "n", "i", "f", "e", "s", "t", ".", "j", "s", "o", "n">>
V100 == <<"1", ".", "0", ".", "0">>
V110 == <<"1", ".", "1", ".", "0">>
V20 == <<"2", ".", "0">>
VBad == <<"1", ".", "x">>
P_avr == <<"a", "v", "r">>
P_sam_d == <<"s", "a", "m", "_", "d">>
P_esp == <<"e", "s", "p">>
N_100_aa_avr == V100 \o <<"_", "a", "a", "_">> \o P_avr \o <<".", "z", "i", "p">>
N_110_bb_avr == V110 \o <<"_", "b", "b", "_">> \o P_avr \o <<".", "z", "i", "p">>
N_100_cc_avr == V100 \o <<"_", "c", "c", "_">> \o P_avr \o <<".", "z", "i", "p">>
N_100_dd_sam_d == V100 \o <<"_", "d", "d", "_">> \o P_sam_d \o <<".", "t", "a", "r", ".", "g", "z">>
N_20_ee_esp == V20 \o <<"_", "e", "e", "_">> \o P_esp \o <<".", "z", "i", "p">>
N_bad == <<"b", "a", "d", ".", "z", "i", "p">>

BinAsset(name, url, size) ==
    [name |-> name, browser_download_url |-> url, size |-> size, manifest |-> <<>>]

ManifestAsset(url, rows) ==
    [name |-> ManifestName, browser_download_url |-> url, size |-> 1, manifest |-> rows]

Row(platform, version, boards, architecture) ==
    [platform |-> platform, version |-> version, boards |-> boards,
     architecture |-> architecture]

\* the asset lists a release of the source repository may carry
ReleaseKinds ==
    { <<ManifestAsset("m1", <<Row(P_avr, V100, <<"uno">>, "avr")>>),
        BinAsset(N_100_aa_avr, "u1", 10)>>,
      <<ManifestAsset("m2", <<Row(P_avr, V110, <<"uno", "nano">>, "avr")>>),
        BinAsset(N_110_bb_avr, "u2", 20)>>,
      <<BinAsset(N_100_cc_avr, "u3", 30)>>,
      <<BinAsset(N_100_dd_sam_d, "u4", 40),
        ManifestAsset("m4", <<Row(P_avr, V100, <<"mega">>, "avr"),
                              Row(P_sam_d, V100, <<"zero">>, "sam")>>)>>,
      <<BinAsset(N_20_ee_esp, "u5", 50)>>,
      <<BinAsset(N_bad, "u6", 60)>>,
      <<ManifestAsset("m7", <<Row(P_esp, V20, <<"esp">>, "esp"),
                              Row(P_avr, VBad, <<"uno">>, "avr")>>)>> }

SeqsUpTo(S, n) == UNION {[1..k -> S] : k \in 0..n}

\* ----------------------------------------------------------------- state
VARIABLES
    server,             \* the source repository's releases (asset lists)
    server_per_page,    \* page size the server applies when the query names none
    index_template,     \* content of the index template file
    per_page,           \* get_released_boards argument
    page_number,        \* line 41
    releases,           \* line 45: the decoded page
    pos,                \* <<release index, asset index>> of the two for loops
    manifest_content,   \* line 42
    released_versions,  \* line 40
    pc,                 \* position of the run
    fault_at,           \* where the unhandled fault was raised ("" while none)
    platform_entries,   \* line 115
    dmfg_index,         \* line 134: the rendered index, as tokens
    create_response,    \* line 91: decoded response of the create-release POST
    release_id,         \* line 136
    page_log,           \* history: every releases request and its page length
    dispatch_log,       \* history: <<release id, asset index>> of each dispatch
    seen_rows,          \* history: manifest rows folded, in scan order
    seen_assets,        \* history: catalogued assets, in scan order
    posts,              \* history: POST requests issued, in order
    cmp,                \* comparator harness: arguments and result
    fn                  \* filename harness: fields, name and parse results

progVars == <<server, server_per_page, index_template, per_page, page_number,
              releases, pos, manifest_content, released_versions, pc, fault_at,
              platform_entries, dmfg_index, create_response, release_id,
              page_log, dispatch_log, seen_rows, seen_assets, posts>>

vars == <<progVars, cmp, fn>>

IndexTemplates == {"comma_unless_last", "comma_always"}

NoResponse == [status |-> "none", has_id |-> FALSE, id |-> 0]

CmpIdle == [a |-> <<>>, b |-> <<>>, r |-> 0, done |-> FALSE]

FnIdle == [fields |-> <<>>, name |-> <<>>, stage |-> "idle",
           parsed |-> parse_asset_name(<<>>), version |-> parse_version(<<>>),
           rederived |-> rederive_checksum(<<>>)]

ProgInit ==
    /\ server \in SeqsUpTo(ReleaseKinds, MaxReleases)
    /\ server_per_page \in 1..MaxPerPage
    /\ index_template \in IndexTemplates
    /\ per_page \in 1..MaxPerPage
    /\ page_number = 0
    /\ releases = <<>>
    /\ pos = <<1, 1>>
    /\ manifest_content = <<>>
    /\ released_versions = <<>>
    /\ pc = "request"
    /\ fault_at = ""
    /\ platform_entries = <<>>
    /\ dmfg_index = <<>>
    /\ create_response = NoResponse
    /\ release_id = 0
    /\ page_log = <<>>
    /\ dispatch_log = <<>>
    /\ seen_rows = <<>>
    /\ seen_assets = <<>>
    /\ posts = <<>>

Init == ProgInit /\ cmp = CmpIdle /\ fn = FnIdle

\* --------------------------------------------------- the releases server
\* The listing endpoint pages by the page and per_page QUERY parameters of
\* the request; a request that names none gets the first page at the
\* server's own page size.  Releases carry their position as id.
list_releases(srv, params, default_per_page) ==
    LET per == IF Has(params, "per_page") THEN Get(params, "per_page")
               ELSE default_per_page
        page == IF Has(params, "page") THEN Get(params, "page") ELSE 0
        lo == page * per + 1
        hi == Min((page + 1) * per, Len(srv))
    IN  [i \in 1..(IF hi >= lo THEN hi - lo + 1 ELSE 0) |->
            [id |-> lo + i - 1, assets |-> srv[lo + i - 1]]]

\* line 44: per_page and page travel in the headers dict; no query is sent
releases_request(pp, pn) ==
    [headers |-> [accept |-> "application/vnd.github+json", per_page |-> pp,
                  page |-> pn, api_version |-> "2022-11-28"],
     params |-> <<>>]

\* ------------------------------------------------- get_released_boards
\* first asset position at or after <<r, a>>; <<Len + 1, 1>> when exhausted
RECURSIVE norm_pos(_, _, _)
norm_pos(rel, r, a) ==
    IF r > Len(rel) THEN <<Len(rel) + 1, 1>>
    ELSE IF a <= Len(rel[r].assets) THEN <<r, a>>
    ELSE norm_pos(rel, r + 1, 1)

next_pos(rel, p) == norm_pos(rel, p[1], p[2] + 1)

cur_asset == releases[pos[1]].assets[pos[2]]

raise(where) == pc' = "fault" /\ fault_at' = where

\* line 62 (a looser test that also stops on a full page)
last_page_le(page, pp) == Len(page) <= pp

\* line 62
last_page(page, pp) == Len(page) < pp

\* line 54 as a keep-the-highest merge
manifest_put_keep_highest(mc, platform, version, entry) ==
    LET cur == GetDefault(mc, platform)
    IN  IF cur # <<>> /\ version_ordering(entry.version, cur[1].v.version) <= 0
        THEN mc
        ELSE Put(mc, platform, <<[k |-> version, v |-> entry]>>)

\* line 54
manifest_put(mc, platform, version, entry) == SetNested(mc, platform, version, entry)

\* line 60 keyed by platform alone
catalog_put_per_platform(rv, platform, version, entry) ==
    Put(rv, platform, <<[k |-> version, v |-> entry]>>)

\* line 60
catalog_put(rv, platform, version, entry) == SetNested(rv, platform, version, entry)

\* lines 51-54 over the rows of one manifest; n rows were stored when ok is
\* FALSE (int() raised on row n + 1)
RECURSIVE fold_manifest(_, _, _)
fold_manifest(mc, rows, i) ==
    IF i > Len(rows) THEN [ok |-> TRUE, mc |-> mc, n |-> Len(rows)]
    ELSE LET pv == parse_version(rows[i].version)
         IN  IF ~pv.ok THEN [ok |-> FALSE, mc |-> mc, n |-> i - 1]
             ELSE fold_manifest(
                      manifest_put(mc, rows[i].platform, rows[i].version,
                                   [boards |-> rows[i].boards, version |-> pv.val,
                                    architecture |-> rows[i].architecture]),
                      rows, i + 1)

\* lines 44-45: GET the releases listing and decode it
get_released_boards_request ==
    /\ pc = "request"
    /\ page_number <= MaxPages
    /\ \/ /\ raise("releases")
          /\ page_log' = Append(page_log,
                 [request |-> releases_request(per_page, page_number), nitems |-> -1])
          /\ UNCHANGED <<releases, pos>>
       \/ LET req == releases_request(per_page, page_number)
              page == list_releases(server, req.params, server_per_page)
          IN  /\ releases' = page
              /\ pos' = norm_pos(page, 1, 1)
              /\ page_log' = Append(page_log, [request |-> req, nitems |-> Len(page)])
              /\ pc' = "scan"
              /\ UNCHANGED fault_at
    /\ UNCHANGED <<server, server_per_page, index_template, per_page, page_number,
                   manifest_content, released_versions, platform_entries, dmfg_index,
                   create_response, release_id, dispatch_log, seen_rows, seen_assets,
                   posts, cmp, fn>>

\* lines 48-54: a manifest.json asset is downloaded and folded
get_released_boards_manifest ==
    /\ pc = "scan"
    /\ pos[1] <= Len(releases)
    /\ cur_asset.name = ManifestName
    /\ dispatch_log' = Append(dispatch_log, <<releases[pos[1]].id, pos[2]>>)
    /\ \/ /\ raise("manifest_download")
          /\ UNCHANGED <<manifest_content, seen_rows, pos>>
       \/ LET f == fold_manifest(manifest_content, cur_asset.manifest, 1)
          IN  /\ manifest_content' = f.mc
              /\ seen_rows' = seen_rows \o SubSeq(cur_asset.manifest, 1, f.n)
              /\ IF f.ok
                 THEN pos' = next_pos(releases, pos) /\ UNCHANGED <<pc, fault_at>>
                 ELSE raise("manifest_version") /\ UNCHANGED pos
    /\ UNCHANGED <<server, server_per_page, index_template, per_page, page_number,
                   releases, released_versions, platform_entries, dmfg_index,
                   create_response, release_id, page_log, seen_assets, posts, cmp, fn>>

\* lines 55-60: any other asset is catalogued from its name
get_released_boards_asset ==
    /\ pc = "scan"
    /\ pos[1] <= Len(releases)
    /\ cur_asset.name # ManifestName
    /\ dispatch_log' = Append(dispatch_log, <<releases[pos[1]].id, pos[2]>>)
    /\ LET parsed == parse_asset_name(cur_asset.name)
           pv == parse_version(parsed.version)
           entry == [version |-> pv.val, url |-> cur_asset.browser_download_url,
                     filename |-> cur_asset.name, filesize |-> cur_asset.size]
       IN  IF ~parsed.ok
           THEN raise("asset_name") /\ UNCHANGED <<released_versions, seen_assets, pos>>
           ELSE IF ~pv.ok
           THEN raise("asset_version") /\ UNCHANGED <<released_versions, seen_assets, pos>>
           ELSE /\ released_versions' =
                       catalog_put(released_versions, parsed.platform, parsed.version, entry)
                /\ seen_assets' = Append(seen_assets,
                       [platform |-> parsed.platform, version |-> parsed.version,
                        hash |-> parsed.hash, entry |-> entry])
                /\ pos' = next_pos(releases, pos)
                /\ UNCHANGED <<pc, fault_at>>
    /\ UNCHANGED <<server, server_per_page, index_template, per_page, page_number,
                   releases, manifest_content, platform_entries, dmfg_index,
                   create_response, release_id, page_log, seen_rows, posts, cmp, fn>>

\* lines 62-65: the page is exhausted
get_released_boards_page_end ==
    /\ pc = "scan"
    /\ pos[1] > Len(releases)
    /\ IF last_page(releases, per_page)
       THEN pc' = "render" /\ UNCHANGED page_number
       ELSE pc' = "request" /\ page_number' = page_number + 1
    /\ UNCHANGED <<server, server_per_page, index_template, per_page, releases, pos,
                   manifest_content, released_versions, fault_at, platform_entries,
                   dmfg_index, create_response, release_id, page_log, dispatch_log,
                   seen_rows, seen_assets, posts, cmp, fn>>

\* ------------------------------------------------------------------ main
\* lines 123/125 with a lookup that substitutes an empty entry
manifest_lookup_or_empty(mi, platform, version) ==
    LET inner == GetDefault(mi, platform)
    IN  IF Has(inner, version) THEN [ok |-> TRUE, v |-> Get(inner, version)]
        ELSE [ok |-> TRUE, v |-> [boards |-> <<>>, version |-> <<>>, architecture |-> ""]]

\* lines 123/125: manifest_info[platform][version]; the outer defaultdict
\* yields {} for an unknown platform, the inner dict raises KeyError
manifest_lookup(mi, platform, version) ==
    LET inner == GetDefault(mi, platform)
    IN  IF Has(inner, version) THEN [ok |-> TRUE, v |-> Get(inner, version)]
        ELSE [ok |-> FALSE, v |-> [boards |-> <<>>, version |-> <<>>, architecture |-> ""]]

\* lines 116-117 visiting only the first version of each platform
catalog_keys_first_version(rb) ==
    LET nonempty == SelectSeq(rb, LAMBDA e : Len(e.v) > 0)
    IN  [i \in 1..Len(nonempty) |-> <<nonempty[i].k, nonempty[i].v[1].k>>]

\* lines 116-117: the nested for loops over released_boards
catalog_keys(rb) == NestedKeys(rb)

\* lines 116-132 from key i on; entries holds the fragments rendered so far
RECURSIVE render_entries(_, _, _, _, _)
render_entries(rb, mi, keys, i, entries) ==
    IF i > Len(keys) THEN [ok |-> TRUE, fault |-> "", entries |-> entries]
    ELSE LET platform == keys[i][1]
             version == keys[i][2]
             e == Get(Get(rb, platform), version)
             c == rederive_checksum(e.filename)
             m == manifest_lookup(mi, platform, version)
         IN  IF ~c.ok THEN [ok |-> FALSE, fault |-> "checksum", entries |-> entries]
             ELSE IF ~m.ok THEN [ok |-> FALSE, fault |-> "join", entries |-> entries]
             ELSE render_entries(rb, mi, keys, i + 1,
                      Append(entries,
                          [platform_name |-> platform,
                           architecture |-> m.v.architecture,
                           version |-> version,
                           boards |-> m.v.boards,
                           url |-> e.url,
                           filename |-> e.filename,
                           size_bytes |-> e.filesize,
                           sha256_checksum |-> c.checksum]))

\* line 134: the context handed to the index template; 'last' marks the
\* final entry only
platforms_context(entries) ==
    [i \in 1..Len(entries) |-> [entry |-> entries[i], last |-> ~(i < Len(entries))]]

\* the index template's section over platforms: each entry, then a comma
\* (unless last, or always, according to the template file)
RECURSIVE render_section(_, _, _)
render_section(template, ctx, i) ==
    IF i > Len(ctx) THEN <<>>
    ELSE <<"entry">>
         \o (IF template = "comma_always" \/ ~ctx[i].last THEN <<",">> ELSE <<>>)
         \o render_section(template, ctx, i + 1)

render_index(template, entries) ==
    <<"[">> \o render_section(template, platforms_context(entries), 1) \o <<"]">>

\* json.loads on the token list "[" entry ("," entry)* "]" or "[" "]"
json_loads_ok(tokens) ==
    /\ Len(tokens) >= 2
    /\ tokens[1] = "[" /\ tokens[Len(tokens)] = "]"
    /\ LET inner == SubSeq(tokens, 2, Len(tokens) - 1)
       IN  /\ Len(inner) = 0 \/ Len(inner) % 2 = 1
           /\ \A i \in 1..Len(inner) :
                 inner[i] = (IF i % 2 = 1 THEN "entry" ELSE ",")

\* line 135 left out
sanity_check_skipped(index) == TRUE

\* line 135: json.loads(dmfg_index) raises on unparsable text
sanity_check(index) == json_loads_ok(index)

\* lines 112-135: no suspension point between the gather and create_release
main_render ==
    /\ pc = "render"
    /\ LET r == render_entries(released_versions, manifest_content,
                               catalog_keys(released_versions), 1, <<>>)
           index == render_index(index_template, r.entries)
       IN  /\ platform_entries' = r.entries
           /\ IF ~r.ok
              THEN raise(r.fault) /\ UNCHANGED dmfg_index
              ELSE /\ dmfg_index' = index
                   /\ IF sanity_check(index)
                      THEN pc' = "create" /\ UNCHANGED fault_at
                      ELSE raise("sanity_check")
    /\ UNCHANGED <<server, server_per_page, index_template, per_page, page_number,
                   releases, pos, manifest_content, released_versions,
                   create_response, release_id, page_log, dispatch_log, seen_rows,
                   seen_assets, posts, cmp, fn>>

\* what the create-release POST may answer
CreateResponses ==
    { [status |-> "transport_fault", has_id |-> FALSE, id |-> 0],
      [status |-> "ok", has_id |-> FALSE, id |-> 0],
      [status |-> "ok", has_id |-> TRUE, id |-> 101],
      [status |-> "ok", has_id |-> TRUE, id |-> 102] }

\* line 92 as response.get('id'): a missing id reads as None (0)
create_release_result_get(response) ==
    [ok |-> response.status = "ok", id |-> response.id]

\* lines 91-92: response['id'] raises KeyError when the key is absent
create_release_result(response) ==
    [ok |-> response.status = "ok" /\ response.has_id, id |-> response.id]

\* lines 76-92 and 136
create_release ==
    /\ pc = "create"
    /\ posts' = Append(posts, [kind |-> "create", release_id |-> 0, index |-> <<>>])
    /\ \E response \in CreateResponses :
          /\ create_response' = response
          /\ LET res == create_release_result(response)
             IN  IF res.ok
                 THEN release_id' = res.id /\ pc' = "upload" /\ UNCHANGED fault_at
                 ELSE raise("create_release") /\ UNCHANGED release_id
    /\ UNCHANGED <<server, server_per_page, index_template, per_page, page_number,
                   releases, pos, manifest_content, released_versions,
                   platform_entries, dmfg_index, page_log, dispatch_log, seen_rows,
                   seen_assets, cmp, fn>>

\* line 96: the release identifier interpolated into the upload URL
upload_target(rid) == rid

\* lines 94-105 and 138
upload_assets ==
    /\ pc = "upload"
    /\ posts' = Append(posts, [kind |-> "upload", release_id |-> upload_target(release_id),
                               index |-> dmfg_index])
    /\ \/ raise("upload_assets")
       \/ pc' = "done" /\ UNCHANGED fault_at
    /\ UNCHANGED <<server, server_per_page, index_template, per_page, page_number,
                   releases, pos, manifest_content, released_versions,
                   platform_entries, dmfg_index, create_response, release_id,
                   page_log, dispatch_log, seen_rows, seen_assets, cmp, fn>>

Next ==
    \/ get_released_boards_request
    \/ get_released_boards_manifest
    \/ get_released_boards_asset
    \/ get_released_boards_page_end
    \/ main_render
    \/ create_release
    \/ upload_assets

Spec == Init /\ [][Next]_vars

\* ------------------------------------------------- comparator harness
Versions == SeqsUpTo(0..MaxComp, MaxVerLen)

ProgIdle ==
    /\ server = <<>> /\ server_per_page = 1 /\ index_template = "comma_unless_last"
    /\ per_page = 1 /\ page_number = 0 /\ releases = <<>> /\ pos = <<1, 1>>
    /\ manifest_content = <<>> /\ released_versions = <<>> /\ pc = "idle"
    /\ fault_at = "" /\ platform_entries = <<>> /\ dmfg_index = <<>>
    /\ create_response = NoResponse /\ release_id = 0 /\ page_log = <<>>
    /\ dispatch_log = <<>> /\ seen_rows = <<>> /\ seen_assets = <<>> /\ posts = <<>>

InitOrd ==
    /\ ProgIdle
    /\ fn = FnIdle
    /\ \E a \in Versions, b \in Versions : cmp = [a |-> a, b |-> b, r |-> 0, done |-> FALSE]

\* a call version_ordering(a, b)
call_version_ordering ==
    /\ ~cmp.done
    /\ cmp' = [cmp EXCEPT !.r = version_ordering(cmp.a, cmp.b), !.done = TRUE]
    /\ UNCHANGED <<progVars, fn>>

NextOrd == call_version_ordering

SpecOrd == InitOrd /\ [][NextOrd]_vars

\* --------------------------------------------------- filename harness
VersionChars == {"1", "2", "."}
VersionTexts == {v \in SeqsUpTo(VersionChars, MaxFieldLen + 1) : parse_version(v).ok}
ChecksumTexts == SeqsUpTo({"a", "."}, MaxFieldLen)
PlatformTexts == SeqsUpTo({"p", "_"}, MaxFieldLen)
ExtensionTexts == SeqsUpTo({"z", ".", "_"}, MaxFieldLen)

ExampleFields ==
    <<<<"1", ".", "2", ".", "3">>, <<"a", "b", "c", "d", "e", "f", "0", "1", "2", "3">>,
      <<"a", "v", "r">>, <<"j", "s", "o", "n">>>>

\* "<version>_<checksum>_<platform>.<extension>"
asset_name_of(f) == f[1] \o <<"_">> \o f[2] \o <<"_">> \o f[3] \o <<".">> \o f[4]

InitFn ==
    /\ ProgIdle
    /\ cmp = CmpIdle
    /\ \E f \in (VersionTexts \X ChecksumTexts \X PlatformTexts \X ExtensionTexts)
                \cup {ExampleFields} :
          fn = [FnIdle EXCEPT !.fields = f, !.name = asset_name_of(f)]

\* lines 56-60 on the harness name
catalog_asset_name ==
    /\ fn.stage = "idle"
    /\ fn' = [fn EXCEPT !.stage = "catalogued",
                        !.parsed = parse_asset_name(fn.name),
                        !.version = parse_version(parse_asset_name(fn.name).version)]
    /\ UNCHANGED <<progVars, cmp>>

\* lines 118-119 on the stored filename
publish_asset_name ==
    /\ fn.stage = "catalogued"
    /\ fn' = [fn EXCEPT !.stage = "published",
                        !.rederived = rederive_checksum(fn.name)]
    /\ UNCHANGED <<progVars, cmp>>

NextFn == catalog_asset_name \/ publish_asset_name

SpecFn == InitFn /\ [][NextFn]_vars

\* ------------------------------------------------------------- claims
SetOf(q) == {q[i] : i \in 1..Len(q)}

\* index of the last element of q satisfying Test
LastWhere(q, Test(_)) ==
    CHOOSE i \in 1..Len(q) : Test(q[i]) /\ \A j \in (i + 1)..Len(q) : ~Test(q[j])

\* get_released_boards has returned to main
Returned ==
    \/ pc \in {"render", "create", "upload", "done"}
    \/ pc = "fault" /\ fault_at \in {"checksum", "join", "sanity_check",
                                     "create_release", "upload_assets"}

Rendered == pc \in {"create", "upload", "done"}

RowEntry(r) ==
    [boards |-> r.boards, version |-> parse_version(r.version).val,
     architecture |-> r.architecture]

\* C1 as stated: the merged manifest data holds a single entry per
\* platform, the one with the highest version (under version_ordering)
\* among all manifest rows scanned for that platform.
C1_KeepsHighestPerPlatform ==
    \A i \in 1..Len(manifest_content) :
        /\ Len(manifest_content[i].v) = 1
        /\ \A j \in 1..Len(seen_rows) :
              seen_rows[j].platform = manifest_content[i].k =>
                  version_ordering(parse_version(seen_rows[j].version).val,
                                   manifest_content[i].v[1].v.version) <= 0

\* C1 amended: the merged manifest data holds, for each platform, one entry
\* per distinct version string scanned for it (no version is compared or
\* dropped), each entry being the most recently scanned row of that platform
\* and version string; the set of (platform, version) keys depends only on
\* the set of rows scanned, not on their order.
C1_KeepsEveryVersion ==
    /\ NestedKeySet(manifest_content)
          = {<<r.platform, r.version>> : r \in SetOf(seen_rows)}
    /\ Len(NestedKeys(manifest_content)) = Cardinality(NestedKeySet(manifest_content))
    /\ \A key \in NestedKeySet(manifest_content) :
          LET Same(r) == r.platform = key[1] /\ r.version = key[2]
          IN  Get(Get(manifest_content, key[1]), key[2])
                 = RowEntry(seen_rows[LastWhere(seen_rows, Same)])

\* C1 witness: the scan returned with both 1.0.0 and 1.1.0 kept for avr
C1_Witness ==
    /\ pc = "render"
    /\ Has(GetDefault(manifest_content, P_avr), V100)
    /\ Has(GetDefault(manifest_content, P_avr), V110)

\* C2 as stated: the asset catalog holds exactly one entry per platform,
\* that of the most recently scanned asset of the platform.
C2_OneEntryPerPlatform ==
    \A i \in 1..Len(released_versions) :
        LET Same(a) == a.platform = released_versions[i].k
        IN  /\ Len(released_versions[i].v) = 1
            /\ released_versions[i].v[1].v
                  = seen_assets[LastWhere(seen_assets, Same)].entry

\* C2 amended: the asset catalog holds exactly one {version, url, filename,
\* filesize} entry per (platform, version string) pair scanned, and that
\* entry is the one of the most recently scanned asset with that platform
\* and version string; assets of other versions of the platform are kept.
C2_LastScannedPerPlatformVersion ==
    /\ NestedKeySet(released_versions)
          = {<<a.platform, a.version>> : a \in SetOf(seen_assets)}
    /\ Len(NestedKeys(released_versions)) = Cardinality(NestedKeySet(released_versions))
    /\ \A key \in NestedKeySet(released_versions) :
          LET Same(a) == a.platform = key[1] /\ a.version = key[2]
              e == Get(Get(released_versions, key[1]), key[2])
              last == seen_assets[LastWhere(seen_assets, Same)]
          IN  /\ e = last.entry
              /\ DOMAIN e = {"version", "url", "filename", "filesize"}
              /\ e.version = parse_version(key[2]).val

\* C2 witness: a later asset of the same platform and version replaced an
\* earlier one, and the scan returned
C2_Witness ==
    /\ pc = "render"
    /\ \E i \in 1..Len(seen_assets), j \in 1..Len(seen_assets) :
          /\ i < j
          /\ seen_assets[i].platform = seen_assets[j].platform
          /\ seen_assets[i].version = seen_assets[j].version
          /\ seen_assets[i].entry # seen_assets[j].entry
          /\ Get(Get(released_versions, seen_assets[j].platform), seen_assets[j].version)
                = seen_assets[j].entry

\* C3 as stated: the rendered list has one fragment per distinct platform
\* of the asset catalog and no more.
C3_OneFragmentPerPlatform ==
    Rendered => Len(platform_entries) = Len(released_versions)

\* C3 amended: the rendered list has exactly one fragment for each distinct
\* (platform, version string) pair of the asset catalog, in catalog order,
\* so a platform catalogued at two versions yields two fragments and a run
\* over a single catalogued asset yields exactly one.
C3_OneFragmentPerPlatformVersion ==
    Rendered =>
        /\ Len(platform_entries) = Cardinality(NestedKeySet(released_versions))
        /\ \A i \in 1..Len(platform_entries) :
              <<platform_entries[i].platform_name, platform_entries[i].version>>
                 = NestedKeys(released_versions)[i]

\* C3 witness: one platform, two catalogued versions, two fragments
C3_Witness ==
    /\ Rendered
    /\ Len(released_versions) = 1
    /\ Len(platform_entries) = 2

\* C4: a create-release or upload request is issued only after the rendered
\* index parsed as JSON; when the parse fails no request is ever issued.
C4_NeverPublishUnparsable ==
    /\ posts # <<>> => json_loads_ok(dmfg_index)
    /\ \A i \in 1..Len(posts) :
          posts[i].kind = "upload" => json_loads_ok(posts[i].index)
    /\ (pc = "fault" /\ fault_at = "sanity_check") => posts = <<>>
    /\ (dmfg_index # <<>> /\ ~json_loads_ok(dmfg_index)) => pc = "fault"

\* C4 witness: the rendered index did not parse and the run stopped there
C4_Witness ==
    /\ pc = "fault" /\ fault_at = "sanity_check"
    /\ Len(platform_entries) > 0
    /\ ~json_loads_ok(dmfg_index)
    /\ posts = <<>>

\* C5: an upload is only started after create_release returned an
\* identifier, it targets exactly that identifier, and a faulting
\* create_release (transport fault, response without id) leaves no upload.
C5_PublishSequencing ==
    /\ \A i \in 1..Len(posts) :
          posts[i].kind = "upload" =>
              /\ i > 1 /\ posts[i - 1].kind = "create"
              /\ create_response.status = "ok" /\ create_response.has_id
              /\ posts[i].release_id = create_response.id
    /\ (create_response.status = "transport_fault"
          \/ (create_response.status = "ok" /\ ~create_response.has_id))
       => /\ pc = "fault" /\ fault_at = "create_release"
          /\ \A i \in 1..Len(posts) : posts[i].kind # "upload"
    /\ pc \in {"upload", "done"} => release_id = create_response.id

\* C5 witness: the upload went to the identifier create_release returned
C5_Witness ==
    /\ pc = "done"
    /\ Len(posts) = 2
    /\ posts[2].kind = "upload" /\ posts[2].release_id = 102
    /\ create_response.id = 102

PageOf(i) == page_log[i].request.headers.page

\* C6: a page with fewer items than per_page is the last page requested and
\* ends the scan; a full page is followed by the request of the next page
\* number and never ends the scan.
C6_PaginationTermination ==
    /\ \A i \in 1..Len(page_log) :
          (page_log[i].nitems >= 0 /\ page_log[i].nitems < per_page)
             => i = Len(page_log)
    /\ \A i \in 1..Len(page_log) :
          /\ PageOf(i) = i - 1
          /\ page_log[i].request.headers.per_page = per_page
    /\ Returned => /\ page_log # <<>>
                   /\ page_log[Len(page_log)].nitems >= 0
                   /\ page_log[Len(page_log)].nitems < per_page
                   /\ page_number = PageOf(Len(page_log))
    /\ (pc = "request" /\ page_log # <<>>)
          => /\ page_log[Len(page_log)].nitems >= per_page
             /\ page_number = PageOf(Len(page_log)) + 1
    /\ pc = "scan" => page_number = PageOf(Len(page_log))

\* C6 witness: a non-empty page shorter than per_page ended the scan
C6_Witness ==
    /\ pc = "render"
    /\ Len(page_log) = 1
    /\ page_log[1].nitems > 0 /\ page_log[1].nitems < per_page

LexLess(a, b) ==
    \E k \in 1..Min(Len(a), Len(b)) :
        /\ \A j \in 1..(k - 1) : a[j] = b[j]
        /\ a[k] < b[k]

C8_FilenameParsing ==
    /\ fn.stage \in {"catalogued", "published"} =>
          /\ fn.parsed.ok
          /\ fn.parsed.version = fn.fields[1]
          /\ fn.parsed.hash = fn.fields[2]
          /\ fn.parsed.platform = fn.fields[3]
          /\ fn.parsed.extension = fn.fields[4]
          /\ fn.version.ok
          /\ fn.fields = ExampleFields => fn.version.val = <<1, 2, 3>>
    /\ fn.stage = "published" =>
          /\ fn.rederived.ok
          /\ fn.rederived.checksum = fn.fields[2]
          /\ fn.rederived.checksum = fn.parsed.hash

\* C8 witness: a platform holding "_" and an extension holding "." went
\* through both the cataloger and the publisher
C8_Witness ==
    /\ fn.stage = "published"
    /\ fn.fields[3] = <<"p", "_">>
    /\ fn.fields[4] = <<"z", ".">>
    /\ fn.parsed.platform = <<"p", "_">>
    /\ fn.rederived.checksum = fn.fields[2]

MissingJoin ==
    \E key \in NestedKeySet(released_versions) :
        key \notin NestedKeySet(manifest_content)

\* C9: when the scan returned a catalog entry (platform, version) without a
\* manifest entry, the run faults in the render loop on the join and no
\* create-release or upload request is issued.
C9_MissingJoinFailsFast ==
    (Returned /\ MissingJoin) =>
        /\ pc \in {"render", "fault"}
        /\ pc = "fault" => fault_at = "join"
        /\ posts = <<>>
        /\ dmfg_index = <<>>

\* C9 witness: the render loop faulted on a missing join key
C9_Witness ==
    /\ pc = "fault" /\ fault_at = "join"
    /\ MissingJoin
    /\ posts = <<>>

\* every <<release id, asset index>> the source repository holds
ServerAssets ==
    UNION {{<<r, a>> : a \in 1..Len(server[r])} : r \in 1..Len(server)}

\* C10 as stated: pages are requested in order 0, 1, 2, ..., no asset is
\* dispatched twice, and when the scan returns the assets of every release
\* of the source repository have been dispatched exactly once.
C10_ScanComplete ==
    /\ \A i \in 1..Len(page_log) : PageOf(i) = i - 1
    /\ \A i \in 1..Len(dispatch_log), j \in 1..Len(dispatch_log) :
          dispatch_log[i] = dispatch_log[j] => i = j
    /\ Returned => SetOf(dispatch_log) = ServerAssets

====
